---- MODULE Spec2Model ----
(***************************************************************************)
(* Document encryption of TextCraft-AI: the stand-alone file encryptor     *)
(* (passward.py, AES-CBC + PKCS7, wrapped content key) and the two editor  *)
(* variants (AI.py and durga.py, AES-CFB, password kept on the window).    *)
(*                                                                         *)
(* Bytes are integers 0..255, byte strings and Python str values are       *)
(* sequences (of bytes, of code points).  The AES block function and       *)
(* PBKDF2 are library primitives: they are modelled by a keyed permutation *)
(* of 16-byte blocks and by a deterministic mixing function.  Everything   *)
(* the repository's code builds around them (padding, chaining, container *)
(* layout, base64/hex/UTF-8/JSON conversions, dialogs, exception paths) is *)
(* computed as the code computes it.                                       *)
(***************************************************************************)
EXTENDS Integers, Sequences, FiniteSets, TLC

\* ------------------------------------------------------------ bounds
\* How many 16-byte values a run may draw from the random source.
MaxDraws == 6

\* How many times encrypt_file may run; each run draws four values.
MaxSeals == 2

\* How many results_ready emissions may wait for the UI thread at once.
MaxQueue == 2

\* ------------------------------------------------- program constants
BlockSize == 16
KeyLen == 32
PasswardIterations == 390000
AIIterations == 100000
DurgaIterations == 100000
HeaderSizeLen == 4

\* Python's None, and a value that is not None.
None == [none |-> TRUE]
Some(v) == [none |-> FALSE, val |-> v]

\* ------------------------------------------------------------- bytes
Bit(a, k) == (a \div k) % 2
XorBit(a, b, k) == IF Bit(a, k) = Bit(b, k) THEN 0 ELSE k

Xor(a, b) ==
  XorBit(a, b, 1) + XorBit(a, b, 2) + XorBit(a, b, 4) + XorBit(a, b, 8)
  + XorBit(a, b, 16) + XorBit(a, b, 32) + XorBit(a, b, 64) + XorBit(a, b, 128)

XorSeq(x, y) == [i \in 1..Len(x) |-> Xor(x[i], y[i])]

Take(s, n) == SubSeq(s, 1, IF n < Len(s) THEN n ELSE Len(s))
Drop(s, n) == SubSeq(s, n + 1, Len(s))

Ok(v) == [ok |-> TRUE, val |-> v]
Raise(e) == [ok |-> FALSE, val |-> e]

\* ------------------------------------------------------- str.encode()
Utf8Char(c) ==
  IF c < 128 THEN <<c>>
  ELSE IF c < 2048 THEN <<192 + (c \div 64), 128 + (c % 64)>>
  ELSE IF c < 65536 THEN <<224 + (c \div 4096), 128 + ((c \div 64) % 64), 128 + (c % 64)>>
  ELSE <<240 + (c \div 262144), 128 + ((c \div 4096) % 64),
         128 + ((c \div 64) % 64), 128 + (c % 64)>>

IsAscii(s) == \A i \in 1..Len(s) : s[i] < 128

RECURSIVE Utf8EncodeFrom(_)
Utf8EncodeFrom(s) ==
  IF s = <<>> THEN <<>> ELSE Utf8Char(Head(s)) \o Utf8EncodeFrom(Tail(s))

\* An ASCII string encodes to its own code points, one byte each.
Utf8Encode(s) == IF IsAscii(s) THEN s ELSE Utf8EncodeFrom(s)

\* ------------------------------------------------ bytes.decode('utf-8')
IsCont(b) == b >= 128 /\ b <= 191

\* Length of the well-formed UTF-8 sequence that starts b, 0 when there is none.
Utf8SeqLen(b) ==
  LET n == Len(b) IN
  IF b[1] < 128 THEN 1
  ELSE IF b[1] >= 194 /\ b[1] <= 223
    THEN IF n >= 2 /\ IsCont(b[2]) THEN 2 ELSE 0
  ELSE IF b[1] >= 224 /\ b[1] <= 239
    THEN IF n >= 3 /\ IsCont(b[2]) /\ IsCont(b[3])
            /\ (b[1] = 224 => b[2] >= 160) /\ (b[1] = 237 => b[2] <= 159)
         THEN 3 ELSE 0
  ELSE IF b[1] >= 240 /\ b[1] <= 244
    THEN IF n >= 4 /\ IsCont(b[2]) /\ IsCont(b[3]) /\ IsCont(b[4])
            /\ (b[1] = 240 => b[2] >= 144) /\ (b[1] = 244 => b[2] <= 143)
         THEN 4 ELSE 0
  ELSE 0

Utf8CodePoint(b, n) ==
  IF n = 1 THEN b[1]
  ELSE IF n = 2 THEN (b[1] - 192) * 64 + (b[2] - 128)
  ELSE IF n = 3 THEN (b[1] - 224) * 4096 + (b[2] - 128) * 64 + (b[3] - 128)
  ELSE (b[1] - 240) * 262144 + (b[2] - 128) * 4096 + (b[3] - 128) * 64 + (b[4] - 128)

RECURSIVE Utf8DecodeFrom(_)
Utf8DecodeFrom(b) ==
  IF b = <<>> THEN Ok(<<>>)
  ELSE LET n == Utf8SeqLen(b) IN
       IF n = 0 THEN Raise("UnicodeDecodeError")
       ELSE LET rest == Utf8DecodeFrom(Drop(b, n)) IN
            IF rest.ok THEN Ok(<<Utf8CodePoint(b, n)>> \o rest.val) ELSE rest

\* Bytes below 128 decode to themselves, one code point each.
Utf8Decode(b) == IF IsAscii(b) THEN Ok(b) ELSE Utf8DecodeFrom(b)

\* ------------------------------------------------------------ base64
B64Std == [i \in 0..63 |->
  IF i < 26 THEN 65 + i ELSE IF i < 52 THEN 71 + i ELSE IF i < 62 THEN i - 4
  ELSE IF i = 62 THEN 43 ELSE 47]

B64Url == [i \in 0..63 |-> IF i = 62 THEN 45 ELSE IF i = 63 THEN 95 ELSE B64Std[i]]

\* Character j of the encoding: sextet k of the group of three bytes g, '='
\* where the group has no byte for it.
B64Enc(b, alpha) ==
  LET n == Len(b)
      At(i) == IF i <= n THEN b[i] ELSE 0
  IN [j \in 1..(4 * ((n + 2) \div 3)) |->
        LET g == 3 * ((j - 1) \div 4)
            k == (j - 1) % 4
        IN IF k = 0 THEN alpha[At(g + 1) \div 4]
           ELSE IF k = 1 THEN alpha[((At(g + 1) % 4) * 16) + (At(g + 2) \div 16)]
           ELSE IF k = 2
             THEN IF g + 2 > n THEN 61
                  ELSE alpha[((At(g + 2) % 16) * 4) + (At(g + 3) \div 64)]
           ELSE IF g + 3 > n THEN 61 ELSE alpha[At(g + 3) % 64]]

b64encode(b) == B64Enc(b, B64Std)
urlsafe_b64encode(b) == B64Enc(b, B64Url)

B64Val(c) ==
  IF c >= 65 /\ c <= 90 THEN c - 65
  ELSE IF c >= 97 /\ c <= 122 THEN c - 71
  ELSE IF c >= 48 /\ c <= 57 THEN c + 4
  ELSE IF c = 43 THEN 62
  ELSE IF c = 47 THEN 63
  ELSE -1

\* The decoder drops every character outside the alphabet before it decodes.
B64Filter(s) == SelectSeq(s, LAMBDA c : B64Val(c) >= 0 \/ c = 61)

\* Whole quads, '=' only as the last one or two characters of the last quad.
B64DecQuads(s) ==
  LET n == Len(s)
      pad == IF n >= 1 /\ s[n] = 61 THEN (IF n >= 2 /\ s[n - 1] = 61 THEN 2 ELSE 1)
             ELSE 0
      V(i) == IF s[i] = 61 THEN 0 ELSE B64Val(s[i])
  IN IF n % 4 # 0 \/ \E i \in 1..(n - pad) : s[i] = 61
       THEN Raise("binascii.Error")
     ELSE Ok([j \in 1..(((n \div 4) * 3) - pad) |->
                LET g == 4 * ((j - 1) \div 3)
                    k == (j - 1) % 3
                IN IF k = 0 THEN (V(g + 1) * 4) + (V(g + 2) \div 16)
                   ELSE IF k = 1 THEN ((V(g + 2) % 16) * 16) + (V(g + 3) \div 4)
                   ELSE ((V(g + 3) % 4) * 64) + V(g + 4)])

b64decode(s) == B64DecQuads(B64Filter(s))

\* ----------------------------------------------------------------- hex
HexDigit(n) == IF n < 10 THEN 48 + n ELSE 87 + n

HexEncode(b) ==
  [j \in 1..(2 * Len(b)) |->
     LET v == b[(j + 1) \div 2]
     IN IF j % 2 = 1 THEN HexDigit(v \div 16) ELSE HexDigit(v % 16)]

\* ------------------------------------------------------ random source
\* Byte i of the pseudo-random stream that starts from h.
StreamByte(h, i) ==
  LET u == ((h + 1) * (i + 16)) % 65521
      v == ((u * 137) + ((h \div 7) * i) + 11) % 65537
  IN (v \div 3) % 256

\* The same sequence, computed once and held as a tuple.
AsTuple(f) == <<>> \o f

Stream(h, n) == AsTuple([i \in 1..n |-> StreamByte(h, i)])

\* The n-th 16-byte value the random source (os.urandom, secrets) returns:
\* two draws of a run never return the same value.
Random16(n) == Stream((n * 389) + 7932, 16)

\* -------------------------------------------------------------- PBKDF2
\* A position-weighted sum of the bytes s[lo..hi].
RECURSIVE WSum(_, _, _)
WSum(s, lo, hi) ==
  IF lo > hi THEN 0
  ELSE IF lo = hi THEN (s[lo] + 1) * (((lo * 31) % 251) + 1)
  ELSE LET mid == (lo + hi) \div 2
       IN WSum(s, lo, mid) + WSum(s, mid + 1, hi)

\* A deterministic function of (password bytes, salt, iterations), of the
\* requested length.
PBKDF2HMAC(password, salt, iterations, length) ==
  Stream(((WSum(password, 1, Len(password)) * 7) + (Len(password) * 101)
          + (WSum(salt, 1, Len(salt)) * 13) + (iterations % 65521)) % 65521,
         length)

\* ---------------------------------------------------- AES block cipher
\* A keyed permutation of 16-byte blocks and its inverse. Every byte of the
\* output depends on every byte of the input, in both directions: the key's
\* first half is added bytewise, the sum of the block is added to each of
\* its bytes, the key's second half is xored in.
RECURSIVE ByteSum(_, _, _)
ByteSum(s, lo, hi) ==
  IF lo > hi THEN 0
  ELSE IF lo = hi THEN s[lo]
  ELSE ByteSum(s, lo, (lo + hi) \div 2) + ByteSum(s, ((lo + hi) \div 2) + 1, hi)

AddKey(key, block) ==
  AsTuple([i \in 1..BlockSize |-> (block[i] + key[i]) % 256])

SubKey(key, block) ==
  AsTuple([i \in 1..BlockSize |-> (block[i] + 256 - key[i]) % 256])

XorKey(key, block) ==
  AsTuple([i \in 1..BlockSize |->
     Xor(block[i], key[((BlockSize + i - 1) % Len(key)) + 1])])

Spread(block, s) == AsTuple([i \in 1..BlockSize |-> (block[i] + s) % 256])

\* y = x + sum(x): then sum(y) = 17 * sum(x), and 17 * 241 = 1 modulo 256.
Diffuse(block) == Spread(block, ByteSum(block, 1, BlockSize) % 256)

Undiffuse(block) ==
  Spread(block, (256 - ((241 * ByteSum(block, 1, BlockSize)) % 256)) % 256)

AESEncryptBlock(key, block) == XorKey(key, Diffuse(AddKey(key, block)))

AESDecryptBlock(key, block) == SubKey(key, Undiffuse(XorKey(key, block)))

ValidKey(key) == Len(key) \in {16, 24, 32}

\* modes.CBC(iv): encryptor.update(data) + encryptor.finalize()
RECURSIVE CBCEncryptBlocks(_, _, _)
CBCChain(key, c, rest) == c \o CBCEncryptBlocks(key, c, rest)

CBCEncryptBlocks(key, prev, data) ==
  IF Len(data) = 0 THEN <<>>
  ELSE CBCChain(key, AESEncryptBlock(key, XorSeq(Take(data, BlockSize), prev)),
                Drop(data, BlockSize))

CBCEncrypt(key, iv, data) ==
  IF ~ValidKey(key) \/ Len(iv) # BlockSize \/ Len(data) % BlockSize # 0
    THEN Raise("ValueError")
  ELSE Ok(CBCEncryptBlocks(key, iv, data))

RECURSIVE CBCDecryptBlocks(_, _, _)
CBCDecryptBlocks(key, prev, data) ==
  IF Len(data) = 0 THEN <<>>
  ELSE XorSeq(AESDecryptBlock(key, Take(data, BlockSize)), prev)
       \o CBCDecryptBlocks(key, Take(data, BlockSize), Drop(data, BlockSize))

CBCDecrypt(key, iv, data) ==
  IF ~ValidKey(key) \/ Len(iv) # BlockSize \/ Len(data) % BlockSize # 0
    THEN Raise("ValueError")
  ELSE Ok(CBCDecryptBlocks(key, iv, data))

\* modes.CFB(iv): full-block feedback, the last block may be short.
RECURSIVE CFBEncryptBlocks(_, _, _)
CFBChain(key, c, rest) ==
  c \o (IF Len(rest) > 0 THEN CFBEncryptBlocks(key, c, rest) ELSE <<>>)

CFBEncryptBlocks(key, prev, data) ==
  IF Len(data) = 0 THEN <<>>
  ELSE CFBChain(key,
                AsTuple(XorSeq(Take(data, BlockSize), AESEncryptBlock(key, prev))),
                Drop(data, BlockSize))

CFBEncrypt(key, iv, data) ==
  IF ~ValidKey(key) \/ Len(iv) # BlockSize THEN Raise("ValueError")
  ELSE Ok(CFBEncryptBlocks(key, iv, data))

RECURSIVE CFBDecryptBlocks(_, _, _)
CFBDecryptBlocks(key, prev, data) ==
  IF Len(data) = 0 THEN <<>>
  ELSE XorSeq(Take(data, BlockSize), AESEncryptBlock(key, prev))
       \o (IF Len(data) > BlockSize
             THEN CFBDecryptBlocks(key, Take(data, BlockSize), Drop(data, BlockSize))
           ELSE <<>>)

CFBDecrypt(key, iv, data) ==
  IF ~ValidKey(key) \/ Len(iv) # BlockSize THEN Raise("ValueError")
  ELSE Ok(CFBDecryptBlocks(key, iv, data))

\* ------------------------------------------------------ PKCS7 padding
\* padder.update(data): hands out the complete blocks, keeps the rest.
PadderUpdate(buffer, data) ==
  LET b == buffer \o data
      n == (Len(b) \div BlockSize) * BlockSize
  IN [out |-> Take(b, n), buffer |-> Drop(b, n)]

\* padder.finalize(): the kept bytes and the padding.
PadderFinalize(buffer) ==
  LET pad == BlockSize - Len(buffer)
  IN buffer \o [i \in 1..pad |-> pad]

\* unpadder.update(data): holds the last complete block back.
UnpadderUpdate(buffer, data) ==
  LET b == buffer \o data
      k == Len(b) \div BlockSize
      n == (IF k >= 1 THEN k - 1 ELSE 0) * BlockSize
  IN [out |-> Take(b, n), buffer |-> Drop(b, n)]

\* An unpadder whose finalize() hands the last block out as it is.
UnpadderFinalizeKeepsPad(buffer) ==
  IF Len(buffer) # BlockSize THEN Raise("ValueError") ELSE Ok(buffer)

\* unpadder.finalize(): exactly one block must be left, validly padded.
UnpadderFinalize(buffer) ==
  IF Len(buffer) # BlockSize THEN Raise("ValueError")
  ELSE LET pad == buffer[BlockSize] IN
       IF pad < 1 \/ pad > BlockSize
            \/ \E i \in (BlockSize - pad + 1)..BlockSize : buffer[i] # pad
         THEN Raise("ValueError")
       ELSE Ok(Take(buffer, BlockSize - pad))

\* ===================================================== passward.py
\* A derivation that runs with the iteration count of the editors.
generate_key_100000(password, salt) ==
  PBKDF2HMAC(Utf8Encode(password), salt, 100000, KeyLen)

passward_generate_key(password, salt) ==
  PBKDF2HMAC(Utf8Encode(password), salt, PasswardIterations, KeyLen)

\* encrypt_data(data, key), with iv the value os.urandom(16) returned.
passward_encrypt_data(data, key, iv) ==
  LET u == PadderUpdate(<<>>, data)
      padded_data == u.out \o PadderFinalize(u.buffer)
  IN [encrypted |-> CBCEncrypt(key, iv, padded_data).val, iv |-> iv]

\* Lines 36-37: one unpadder is fed the decrypted bytes and finalized.
Unpad(d) ==
  IF ~d.ok THEN d
  ELSE LET u == UnpadderUpdate(<<>>, d.val)
           f == UnpadderFinalize(u.buffer)
       IN IF f.ok THEN Ok(u.out \o f.val) ELSE f

passward_decrypt_data(encrypted, key, iv) == Unpad(CBCDecrypt(key, iv, encrypted))

\* generate_recovery_key(), with r the value os.urandom(16) returned.
generate_recovery_key(r) == Utf8Decode(urlsafe_b64encode(r)).val

\* base64.b64encode(x).decode()
B64Str(x) == Utf8Decode(b64encode(x)).val

\* A wrap that encrypts the content key as it is, without padding.
WrapKeyUnpadded(key, recovery_key_bytes, iv) ==
  [padded_key |-> key,
   iv |-> iv,
   encrypted_key |-> CBCEncrypt(recovery_key_bytes, iv, key).val]

\* Lines 84-87: the content key padded by two padders, one that is fed the
\* key and a new one that is finalized, encrypted under the recovery key
\* with the content iv.
WrapKey(key, recovery_key_bytes, iv) ==
  LET padded_key == PadderUpdate(<<>>, key).out \o PadderFinalize(<<>>)
  IN [padded_key |-> padded_key,
      iv |-> iv,
      encrypted_key |-> CBCEncrypt(recovery_key_bytes, iv, padded_key).val]

\* Line 145: one unpadder is fed the decrypted bytes, a new one is finalized.
UnpadTwoUnpadders(d) ==
  IF ~d.ok THEN d
  ELSE LET f == UnpadderFinalize(<<>>) IN
       IF f.ok THEN Ok(UnpadderUpdate(<<>>, d.val).out \o f.val) ELSE f

\* Lines 142-145: the wrapped key decrypted with the content iv and unpadded.
UnwrapKey(encrypted_key, recovery_key_bytes, iv) ==
  UnpadTwoUnpadders(CBCDecrypt(recovery_key_bytes, iv, encrypted_key))

\* The dictionary encrypt_file writes as JSON.
FileContent(salt, iv, encrypted, recovery_salt, encrypted_key) ==
  [salt |-> B64Str(salt),
   iv |-> B64Str(iv),
   encrypted_data |-> B64Str(encrypted),
   recovery |-> [salt |-> B64Str(recovery_salt),
                 encrypted_key |-> B64Str(encrypted_key)]]

\* json.dumps(file_content).encode(): the keys in the order of the dict, with
\* the separators ", " and ": ".
FileKeySalt == <<123, 34, 115, 97, 108, 116, 34, 58, 32, 34>>
FileKeyIv == <<34, 44, 32, 34, 105, 118, 34, 58, 32, 34>>
FileKeyData == <<34, 44, 32, 34, 101, 110, 99, 114, 121, 112, 116, 101, 100, 95, 100, 97, 116, 97, 34, 58, 32, 34>>
FileKeyRecovery == <<34, 44, 32, 34, 114, 101, 99, 111, 118, 101, 114, 121, 34, 58, 32, 123, 34, 115, 97, 108, 116, 34, 58, 32, 34>>
FileKeyWrapped == <<34, 44, 32, 34, 101, 110, 99, 114, 121, 112, 116, 101, 100, 95, 107, 101, 121, 34, 58, 32, 34>>
FileEnd == <<34, 125, 125>>

FileDumps(file_content) ==
  Utf8Encode(FileKeySalt \o file_content.salt
             \o FileKeyIv \o file_content.iv
             \o FileKeyData \o file_content.encrypted_data
             \o FileKeyRecovery \o file_content.recovery.salt
             \o FileKeyWrapped \o file_content.recovery.encrypted_key
             \o FileEnd)

\* lit stands in t at position pos.
LitAt(t, lit, pos) ==
  pos + Len(lit) - 1 <= Len(t) /\ SubSeq(t, pos, pos + Len(lit) - 1) = lit

Prepend(x, rest) == IF rest.ok THEN Ok(<<x>> \o rest.val) ELSE rest

\* The strings of t that start at pos and end at the closers, in turn; the
\* last closer ends t. The strings hold no escapes.
RECURSIVE ReadStrings(_, _, _)
ReadStringTo(t, pos, q, closers) ==
  IF LitAt(t, Head(closers), q) /\ \A i \in pos..(q - 1) : t[i] # 92
    THEN Prepend(SubSeq(t, pos, q - 1),
                 ReadStrings(t, q + Len(Head(closers)), Tail(closers)))
  ELSE Raise("JSONDecodeError")

ReadStrings(t, pos, closers) ==
  IF closers = <<>>
    THEN IF pos = Len(t) + 1 THEN Ok(<<>>) ELSE Raise("JSONDecodeError")
  ELSE LET quotes == {i \in pos..Len(t) : t[i] = 34} IN
       IF quotes = {} THEN Raise("JSONDecodeError")
       ELSE ReadStringTo(t, pos, CHOOSE i \in quotes : \A j \in quotes : i <= j,
                         closers)

AsFileContent(strings) ==
  IF ~strings.ok THEN strings
  ELSE Ok([salt |-> strings.val[1], iv |-> strings.val[2],
           encrypted_data |-> strings.val[3],
           recovery |-> [salt |-> strings.val[4],
                         encrypted_key |-> strings.val[5]]])

\* json.loads of a decoded text, for the texts json.dumps above writes and
\* for texts that are no JSON object of that shape.
FileLoadsText(t) ==
  IF ~t.ok THEN t
  ELSE IF ~LitAt(t.val, FileKeySalt, 1) THEN Raise("JSONDecodeError")
  ELSE AsFileContent(ReadStrings(t.val, Len(FileKeySalt) + 1,
                                 <<FileKeyIv, FileKeyData, FileKeyRecovery,
                                   FileKeyWrapped, FileEnd>>))

\* Line 113: json.loads(f.read().decode())
FileLoads(file) == FileLoadsText(Utf8Decode(file))

\* ======================================================= AI.py (editor)
\* Python's s[m:n].
Slice(s, m, n) ==
  LET hi == IF n < Len(s) THEN n ELSE Len(s)
  IN IF m >= hi THEN <<>> ELSE SubSeq(s, m + 1, hi)

AI_generate_key(password, salt) ==
  PBKDF2HMAC(Utf8Encode(password), salt, AIIterations, KeyLen)

\* encrypt_data(data, password), with salt and iv the two values os.urandom(16)
\* returned.
AI_encrypt_data(data, password, salt, iv) ==
  LET key == AI_generate_key(password, salt)
  IN salt \o iv \o CFBEncrypt(key, iv, data).val

AI_decrypt_data(encrypted_data, password) ==
  LET salt == Slice(encrypted_data, 0, 16)
      iv == Slice(encrypted_data, 16, 32)
      data == Slice(encrypted_data, 32, Len(encrypted_data))
      key == AI_generate_key(password, salt)
  IN CFBDecrypt(key, iv, data)

\* ==================================================== durga.py (editor)
durga_generate_key(password, salt) ==
  PBKDF2HMAC(Utf8Encode(password), salt, DurgaIterations, KeyLen)

durga_encrypt_data(data, password, salt, iv) ==
  LET key == durga_generate_key(password, salt)
  IN salt \o iv \o CFBEncrypt(key, iv, data).val

durga_decrypt_data(encrypted_data, password) ==
  LET salt == Slice(encrypted_data, 0, 16)
      iv == Slice(encrypted_data, 16, 32)
      data == Slice(encrypted_data, 32, Len(encrypted_data))
      key == durga_generate_key(password, salt)
  IN CFBDecrypt(key, iv, data)

\* secrets.token_hex(16), with r the 16 bytes the random source returned.
token_hex(r) == Utf8Decode(HexEncode(r)).val

\* n.to_bytes(4, byteorder='big') and int.from_bytes(b, byteorder='big')
ToBytes(n, length) ==
  IF n \div (256 ^ (length - 1)) >= 256 THEN Raise("OverflowError")
  ELSE Ok([i \in 1..length |-> (n \div (256 ^ (length - i))) % 256])

RECURSIVE FromBytes(_)
FromBytes(b) ==
  IF b = <<>> THEN 0 ELSE (256 * FromBytes(Take(b, Len(b) - 1))) + b[Len(b)]

\* json.dumps of the recovery header: {"recovery_key": ..., "created_at": ...}
JsonKey1 == <<123, 34, 114, 101, 99, 111, 118, 101, 114, 121, 95, 107, 101, 121, 34, 58, 32>>
JsonNull == <<110, 117, 108, 108>>
JsonKey2 == <<44, 32, 34, 99, 114, 101, 97, 116, 101, 100, 95, 97, 116, 34, 58, 32>>

RECURSIVE Digits(_)
Digits(n) ==
  IF n < 10 THEN <<48 + n>> ELSE Digits(n \div 10) \o <<48 + (n % 10)>>

\* repr of the float time.time() returned, a whole number of seconds.
FloatRepr(t) == Digits(t) \o <<46, 48>>

\* A header that is written without the recovery key.
JsonDumpsWithoutKey(rkey, created_at) ==
  JsonKey1 \o JsonNull \o JsonKey2 \o FloatRepr(created_at) \o <<125>>

JsonDumps(rkey, created_at) ==
  JsonKey1
  \o (IF rkey = None THEN JsonNull ELSE <<34>> \o rkey.val \o <<34>>)
  \o JsonKey2 \o FloatRepr(created_at) \o <<125>>

\* json.loads(...).get("recovery_key") for the headers json.dumps writes above:
\* the two keys in this order, a string without escapes or null, a number.
JsonLoads(t) ==
  LET n == Len(t)
      HasAt(lit, pos) ==
        pos + Len(lit) - 1 <= n /\ SubSeq(t, pos, pos + Len(lit) - 1) = lit
      IsNumber(from, to) ==
        from <= to /\ \A i \in from..to : (t[i] >= 48 /\ t[i] <= 57) \/ t[i] = 46
      Rest(pos, rkey) ==
        IF HasAt(JsonKey2, pos) /\ t[n] = 125
             /\ IsNumber(pos + Len(JsonKey2), n - 1)
          THEN Ok([recovery_key |-> rkey])
        ELSE Raise("JSONDecodeError")
      p1 == Len(JsonKey1) + 1
  IN IF ~HasAt(JsonKey1, 1) THEN Raise("JSONDecodeError")
     ELSE IF HasAt(JsonNull, p1) THEN Rest(p1 + Len(JsonNull), None)
     ELSE IF p1 <= n /\ t[p1] = 34
       THEN LET closes == {i \in (p1 + 1)..n : t[i] = 34} IN
            IF closes = {} \/ \E i \in (p1 + 1)..n : t[i] = 92
              THEN Raise("JSONDecodeError")
            ELSE LET q == CHOOSE i \in closes : \A j \in closes : i <= j
                 IN Rest(q + 1, Some(SubSeq(t, p1 + 1, q - 1)))
     ELSE Raise("JSONDecodeError")

\* Lines 869-881: [recovery_info_size (4 bytes)][recovery_info][encrypted_data]
WriteContainer(rkey, created_at, encrypted_data) ==
  LET recovery_info == Utf8Encode(JsonDumps(rkey, created_at))
      size == ToBytes(Len(recovery_info), HeaderSizeLen)
  IN IF ~size.ok THEN size ELSE Ok(size.val \o recovery_info \o encrypted_data)

\* Lines 893-904: what open_encrypted_file reads back.
ReadContainer(file) ==
  LET recovery_size == FromBytes(Slice(file, 0, HeaderSizeLen))
      recovery_info == Slice(file, HeaderSizeLen, HeaderSizeLen + recovery_size)
      decoded == Utf8Decode(recovery_info)
  IN IF ~decoded.ok THEN decoded
     ELSE LET recovery_data == JsonLoads(decoded.val) IN
          IF ~recovery_data.ok THEN recovery_data
          ELSE Ok([stored_recovery_key |-> recovery_data.val.recovery_key,
                   encrypted_data |->
                     Slice(file, HeaderSizeLen + recovery_size, Len(file))])

\* bytes.decode('utf-8') of what decrypt_data returned, if it returned.
Decode(d) == IF d.ok THEN Utf8Decode(d.val) ELSE d

\* decrypt_data(...) followed by .decode('utf-8')
AI_decrypt_text(encrypted, password) == Decode(AI_decrypt_data(encrypted, password))

durga_decrypt_text(encrypted_data, password) ==
  Decode(durga_decrypt_data(encrypted_data, password))

\* ------------------------------------------------------------ inputs
\* What the user types at a password prompt: "", "a", "dd".
Passwords == {<<>>, <<97>>, <<100, 100>>}

\* Contents of the file chosen for encryption: empty, "hello world",
\* one whole block, one block and a byte.
Plaintexts ==
  {<<>>,
   <<104, 101, 108, 108, 111, 32, 119, 111, 114, 108, 100>>,
   [i \in 1..BlockSize |-> 64 + i],
   [i \in 1..(BlockSize + 1) |-> 64 + i]}

\* What the user types into the editor: "", "H" and e-acute, and
\* "hello world, hello".
Texts ==
  {<<>>,
   <<72, 233>>,
   <<104, 101, 108, 108, 111, 32, 119, 111, 114, 108, 100, 44, 32,
     104, 101, 108, 108, 111>>}

\* What time.time() returns.
Times == {1700000000}

\* A key that differs from rkey in its first character.
OtherKey(rkey) == [rkey EXCEPT ![1] = IF rkey[1] = 65 THEN 66 ELSE 65]

\* ------------------------------------------------------------- state
VARIABLES
  app,               \* which program runs: "passward", "AI" or "durga"
  rng,               \* how many 16-byte values the random source has returned
  encFile,           \* the bytes of the .enc file on disk (None: no file yet)
  msg,               \* the message box the handler run showed
  text,              \* text_edit's content (editors)
  current_password,  \* self.current_password (editors)
  recovery_key,      \* self.recovery_key (editors)
  sealed,            \* the locals of the last handler run that wrote a
                     \* container, and the container it wrote
  last,              \* the handler run that just ended: its inputs, locals
                     \* and output ("none" once it has returned)
  pc,                \* where each thread of durga.py is: the UI thread in
                     \* its event loop ("exec") or inside a slot, the
                     \* GrammarCheckerThread inside run()
  grammar_check_enabled,  \* text_edit.grammar_check_enabled
  grammar_timer,     \* grammar_timer is active
  check_requested,   \* grammar_checker.check_requested is set
  text_to_check,     \* grammar_checker.text_to_check
  checking,          \* the local text of GrammarCheckerThread.run
  results_ready,     \* emitted results_ready signals the UI thread has
                     \* not delivered yet
  grammar_issues     \* highlighter.grammar_issues: what is highlighted

\* The state of the grammar checking of durga.py.
gvars == <<pc, grammar_check_enabled, grammar_timer, check_requested,
           text_to_check, checking, results_ready, grammar_issues>>

\* The document state, the editor's text left out.
docvars == <<app, rng, encFile, msg, current_password, recovery_key,
             sealed, last>>

vars == <<app, rng, encFile, msg, text, current_password, recovery_key,
          sealed, last, pc, grammar_check_enabled, grammar_timer,
          check_requested, text_to_check, checking, results_ready,
          grammar_issues>>

NoMsg == [box |-> "none", text |-> "", shown |-> None]

\* A message box that leaves out the value it was to show.
BoxWithoutValue(kind, t, v) == [box |-> kind, text |-> t, shown |-> None]

Box(kind, t, v) == [box |-> kind, text |-> t, shown |-> v]

\* A random source that starts over in every handler run.
DrawReseeded(k) == Random16(k)

\* The k-th value the running handler draws from the random source.
Draw(k) == Random16(rng + k)

\* No handler run is being reported: the program waits in its event loop.
Idle == last.op = "none"

\* ================================================ FileEncryptorApp
\* The path of the container and the path of another file.
ContainerPath == "document.enc"
OtherPath == "document.out"

\* The file the user picks to decrypt: the container as written (0), a copy
\* that differs from it in byte t of the content ciphertext (t > 0), or a
\* copy cut short by -t bytes (t < 0).
TamperChoices(content) ==
  IF ~content.ok THEN {0, -1}
  ELSE LET n == Len(b64decode(content.val.encrypted_data).val) IN {0, 1, n, -1}

Tamper(content, t) ==
  IF t = 0 THEN content
  ELSE LET c == b64decode(content.encrypted_data).val
       IN [content EXCEPT
             !.encrypted_data = B64Str([c EXCEPT ![t] = Xor(c[t], 1)])]

PickFile(file, content, t) ==
  IF t = 0 THEN file
  ELSE IF t < 0 THEN Take(file, Len(file) + t)
  ELSE FileDumps(Tamper(content.val, t))

\* Lines 112-117, which no try block encloses: the content of the file and
\* its three fields decoded, or the exception that leaves the handler.
ReadFileContent(content) ==
  IF ~content.ok THEN content
  ELSE IF ~b64decode(content.val.salt).ok THEN b64decode(content.val.salt)
  ELSE IF ~b64decode(content.val.iv).ok THEN b64decode(content.val.iv)
  ELSE IF ~b64decode(content.val.encrypted_data).ok
    THEN b64decode(content.val.encrypted_data)
  ELSE content

ReadFile(file) == ReadFileContent(FileLoads(file))

\* Lines 115-117 and 127-129: the password branch of decrypt_file.
PasswordPath(content, password) ==
  LET salt == b64decode(content.salt).val
      iv == b64decode(content.iv).val
      encrypted_data == b64decode(content.encrypted_data).val
      key == passward_generate_key(password, salt)
  IN passward_decrypt_data(encrypted_data, key, iv)

\* Line 146: the content decrypted with the unwrapped key.
DecryptWithUnwrapped(encrypted_data, key, iv) ==
  IF ~key.ok THEN key ELSE passward_decrypt_data(encrypted_data, key.val, iv)

\* Lines 138-146: the try block of the recovery branch.
RecoveryTry(iv, encrypted_data, recovery_salt, encrypted_key, rkey) ==
  IF ~recovery_salt.ok THEN recovery_salt
  ELSE IF ~encrypted_key.ok THEN encrypted_key
  ELSE DecryptWithUnwrapped(
         encrypted_data,
         UnwrapKey(encrypted_key.val,
                   passward_generate_key(rkey, recovery_salt.val), iv),
         iv)

\* Lines 115-117 and 137-146: the recovery branch of decrypt_file.
RecoveryPath(content, rkey) ==
  RecoveryTry(b64decode(content.iv).val,
              b64decode(content.encrypted_data).val,
              b64decode(content.recovery.salt),
              b64decode(content.recovery.encrypted_key), rkey)

\* A save that writes the decrypted bytes over the container whatever path
\* was picked.
WriteDecryptedOverContainer(file, decrypted, save_path) ==
  IF decrypted.ok /\ save_path # "" THEN Some(decrypted.val) ELSE file

\* Lines 151-154: the container file after the decrypted bytes were written
\* to the path picked in "Save Decrypted File".
WriteDecrypted(file, decrypted, save_path) ==
  IF decrypted.ok /\ save_path = ContainerPath THEN Some(decrypted.val)
  ELSE file

\* The process ends inside handler `during`: an exception no try block
\* catches leaves the slot, and the Qt binding aborts the program.
Abort(during, error, t) ==
  [op |-> "abort", during |-> during, error |-> error, tamper |-> t]

\* The process is killed while `with open(path, 'wb')` holds the file open:
\* open has truncated the file and the buffered writes have not reached it.
Crash(during, intended) ==
  [op |-> "crash", during |-> during, previous |-> encFile,
   intended |-> intended]

TornFile == <<>>

encrypt_file ==
  /\ app = "passward"
  /\ Idle
  /\ UNCHANGED gvars
  /\ rng < 4 * MaxSeals
  /\ \E file_path \in BOOLEAN, ok \in BOOLEAN, password \in Passwords :
       IF ~file_path \/ ~ok \/ password = <<>>
         THEN UNCHANGED vars
       ELSE \E data \in Plaintexts, out_path \in BOOLEAN,
               salt \in {Draw(0)}, rkey \in {generate_recovery_key(Draw(2))},
               recovery_salt \in {Draw(3)} :
         \E key \in {passward_generate_key(password, salt)} :
         \E e \in {passward_encrypt_data(data, key, Draw(1))},
            recovery_key_bytes \in {passward_generate_key(rkey, recovery_salt)} :
         \E w \in {WrapKey(key, recovery_key_bytes, e.iv)} :
         \E container \in {FileDumps(FileContent(salt, e.iv, e.encrypted,
                                                 recovery_salt,
                                                 w.encrypted_key))},
            crash \in BOOLEAN :
            /\ rng' = rng + 4
            /\ IF ~out_path
                 THEN UNCHANGED <<encFile, msg, sealed, last>>
               ELSE IF crash
                 THEN /\ encFile' = Some(TornFile)
                      /\ last' = Crash("encrypt_file", container)
                      /\ UNCHANGED <<msg, sealed>>
               ELSE /\ encFile' = Some(container)
                    /\ msg' = Box("information", "File encrypted!", Some(rkey))
                    /\ sealed' = Some([data |-> data, password |-> password,
                                       salt |-> salt, key |-> key, iv |-> e.iv,
                                       recovery_key |-> Some(rkey),
                                       recovery_salt |-> recovery_salt,
                                       wrap_key |-> recovery_key_bytes,
                                       wrap_iv |-> w.iv,
                                       padded_key |-> w.padded_key,
                                       container |-> container,
                                       drawn |-> rng])
                    /\ last' = [op |-> "encrypt_file", before |-> sealed]
            /\ UNCHANGED <<app, text, current_password, recovery_key>>

decrypt_file ==
  /\ app = "passward"
  /\ Idle
  /\ UNCHANGED gvars
  /\ encFile # None
  /\ \E file_path \in BOOLEAN, method_ok \in BOOLEAN, ok \in BOOLEAN :
       IF ~file_path
         THEN UNCHANGED vars
       ELSE \E onDisk \in {FileLoads(encFile.val)} :
            \E t \in TamperChoices(onDisk) :
            \E read \in {ReadFile(PickFile(encFile.val, onDisk, t))} :
         IF ~read.ok
           THEN /\ last' = Abort("decrypt_file", read.val, t)
                /\ UNCHANGED <<app, rng, encFile, msg, text, current_password,
                               recovery_key, sealed>>
         ELSE IF ~method_ok \/ ~ok
           THEN UNCHANGED vars
         ELSE \E method \in {"Password", "Recovery Key"} :
         \E entered \in IF method = "Password" THEN Passwords
                        ELSE {<<>>, sealed.val.recovery_key.val,
                              OtherKey(sealed.val.recovery_key.val)} :
         \E decrypted \in {IF method = "Password"
                              THEN PasswordPath(read.val, entered)
                            ELSE RecoveryPath(read.val, entered)},
            save_path \in {"", OtherPath, ContainerPath} :
                /\ last' = [op |-> "decrypt_file", method |-> method,
                            entered |-> entered, tamper |-> t,
                            decrypted |-> decrypted,
                            save_path |-> save_path,
                            saved |-> IF decrypted.ok /\ save_path # ""
                                        THEN Some(decrypted.val) ELSE None]
                /\ msg' = IF ~decrypted.ok
                            THEN IF method = "Password"
                                   THEN Box("critical",
                                            "Wrong password or corrupted file.", None)
                                 ELSE Box("critical",
                                          "Invalid recovery key or file corrupted.",
                                          None)
                          ELSE IF save_path # ""
                            THEN Box("information", "File decrypted successfully!",
                                     None)
                          ELSE msg
                /\ encFile' = WriteDecrypted(encFile, decrypted, save_path)
                /\ UNCHANGED <<app, rng, text, current_password,
                               recovery_key, sealed>>

\* ===================================================== editors
\* The user edits the document in text_edit.
EditText ==
  /\ app \in {"AI", "durga"}
  /\ Idle
  /\ UNCHANGED gvars
  /\ \E t \in Texts : text' = t
  /\ UNCHANGED <<app, rng, encFile, msg, current_password, recovery_key,
                 sealed, last>>

\* The file the user picks to open: the one saved (0), a copy whose last
\* ciphertext byte differs (t > 0), or a copy cut short by -t bytes (t < 0):
\* by its last byte, or down to its first two bytes.
FileChoices(file, header) ==
  {0} \cup (IF Len(file) > header THEN {Len(file)} ELSE {})
      \cup {-1, 2 - Len(file)}

TamperFile(file, t) ==
  IF t = 0 THEN file
  ELSE IF t < 0 THEN Take(file, Len(file) + t)
  ELSE [file EXCEPT ![t] = Xor(file[t], 1)]

\* ------------------------------------------------------------ AI.py
\* A save without a password that opens the file for writing before it
\* warns.
PasswordRequiredTruncating(message) ==
  /\ msg' = Box("warning", message, None)
  /\ last' = [op |-> "save_encrypted_file", written |-> FALSE,
              before |-> sealed]
  /\ encFile' = Some(TornFile)
  /\ UNCHANGED <<app, rng, text, current_password, recovery_key, sealed>>

\* save_encrypted_file with no password set: the warning, and return.
PasswordRequired(message) ==
  /\ msg' = Box("warning", message, None)
  /\ last' = [op |-> "save_encrypted_file", written |-> FALSE,
              before |-> sealed]
  /\ UNCHANGED <<app, rng, encFile, text, current_password, recovery_key,
                 sealed>>

\* A set_password that forgets the password when the dialog is cancelled
\* or left empty, and keeps the recovery key.
AI_set_password_clearing ==
  /\ app = "AI"
  /\ Idle
  /\ UNCHANGED gvars
  /\ rng + 1 <= MaxDraws
  /\ \E ok \in BOOLEAN, password \in Passwords :
       IF ok /\ password # <<>>
         THEN /\ current_password' = Some(password)
              /\ recovery_key' =
                   Some(Utf8Decode(urlsafe_b64encode(Draw(0))).val)
              /\ msg' = Box("information", "Password Set", recovery_key')
              /\ rng' = rng + 1
              /\ last' = [op |-> "set_password"]
              /\ UNCHANGED <<app, encFile, text, sealed>>
       ELSE /\ current_password' = None
            /\ UNCHANGED <<app, rng, encFile, msg, text, recovery_key, sealed,
                           last>>

AI_set_password ==
  /\ app = "AI"
  /\ Idle
  /\ UNCHANGED gvars
  /\ rng + 1 <= MaxDraws
  /\ \E ok \in BOOLEAN, password \in Passwords :
       IF ok /\ password # <<>>
         THEN /\ current_password' = Some(password)
              /\ recovery_key' =
                   Some(Utf8Decode(urlsafe_b64encode(Draw(0))).val)
              /\ msg' = Box("information", "Password Set", recovery_key')
              /\ rng' = rng + 1
              /\ last' = [op |-> "set_password"]
              /\ UNCHANGED <<app, encFile, text, sealed>>
       ELSE UNCHANGED vars

AI_save_encrypted_file ==
  /\ app = "AI"
  /\ Idle
  /\ UNCHANGED gvars
  /\ rng + 2 <= MaxDraws
  /\ IF current_password = None
       THEN PasswordRequired("Set a password first.")
     ELSE \E path \in BOOLEAN :
       IF ~path THEN UNCHANGED vars
       ELSE \E salt \in {Draw(0)}, iv \in {Draw(1)} :
            \E encrypted \in {AI_encrypt_data(Utf8Encode(text),
                                              current_password.val, salt, iv)},
               crash \in BOOLEAN :
              /\ rng' = rng + 2
              /\ IF crash
                   THEN /\ encFile' = Some(TornFile)
                        /\ last' = Crash("save_encrypted_file", encrypted)
                        /\ UNCHANGED sealed
                 ELSE /\ encFile' = Some(encrypted)
                      /\ sealed' = Some([data |-> text,
                                         password |-> current_password.val,
                                         salt |-> salt, iv |-> iv,
                                         recovery_key |-> recovery_key,
                                         container |-> encrypted,
                                         drawn |-> rng])
                      /\ last' = [op |-> "save_encrypted_file",
                                  written |-> TRUE, before |-> sealed]
              /\ UNCHANGED <<app, msg, text, current_password,
                             recovery_key>>

AI_open_encrypted_file ==
  /\ app = "AI"
  /\ Idle
  /\ UNCHANGED gvars
  /\ encFile # None
  /\ \E path \in BOOLEAN, ok \in BOOLEAN, password \in Passwords :
       IF ~path \/ ~ok \/ password = <<>>
         THEN UNCHANGED vars
       ELSE \E t \in FileChoices(encFile.val, 2 * BlockSize) :
            \E decrypted \in {AI_decrypt_text(TamperFile(encFile.val, t),
                                              password)} :
              /\ last' = [op |-> "open_encrypted_file", password |-> password,
                          tamper |-> t, loaded |-> decrypted.ok]
              /\ IF decrypted.ok
                   THEN /\ text' = decrypted.val
                        /\ current_password' = Some(password)
                        /\ UNCHANGED msg
                 ELSE /\ msg' = Box("critical",
                                    "Failed to decrypt. Invalid password?", None)
                      /\ UNCHANGED <<text, current_password>>
              /\ UNCHANGED <<app, rng, encFile, recovery_key, sealed>>

\* --------------------------------------------------------- durga.py
\* A set_password that sets the password and issues no recovery key.
durga_set_password_without_key ==
  /\ app = "durga"
  /\ Idle
  /\ UNCHANGED gvars
  /\ rng + 1 <= MaxDraws
  /\ \E ok \in BOOLEAN, password \in Passwords :
       IF ok /\ password # <<>>
         THEN /\ current_password' = Some(password)
              /\ msg' = Box("information", "Recovery Key", recovery_key)
              /\ rng' = rng + 1
              /\ last' = [op |-> "set_password"]
              /\ UNCHANGED <<app, encFile, text, sealed, recovery_key>>
       ELSE UNCHANGED vars

\* A set_password that takes whatever was typed, nothing included.
durga_set_password_unchecked ==
  /\ app = "durga"
  /\ Idle
  /\ UNCHANGED gvars
  /\ rng + 1 <= MaxDraws
  /\ \E ok \in BOOLEAN, password \in Passwords :
       IF ok
         THEN /\ current_password' = Some(password)
              /\ recovery_key' = Some(token_hex(Draw(0)))
              /\ msg' = Box("information", "Recovery Key", recovery_key')
              /\ rng' = rng + 1
              /\ last' = [op |-> "set_password"]
              /\ UNCHANGED <<app, encFile, text, sealed>>
       ELSE UNCHANGED vars

durga_set_password ==
  /\ app = "durga"
  /\ Idle
  /\ UNCHANGED gvars
  /\ rng + 1 <= MaxDraws
  /\ \E ok \in BOOLEAN, password \in Passwords :
       IF ok /\ password # <<>>
         THEN /\ current_password' = Some(password)
              /\ recovery_key' = Some(token_hex(Draw(0)))
              /\ msg' = Box("information", "Recovery Key", recovery_key')
              /\ rng' = rng + 1
              /\ last' = [op |-> "set_password"]
              /\ UNCHANGED <<app, encFile, text, sealed>>
       ELSE UNCHANGED vars

\* What save_encrypted_file is about to rotate: the container on disk, if it
\* was opened, its document is the one in the editor and the password has
\* been changed since.
RotatedFrom ==
  IF sealed # None /\ sealed.val.opened /\ text = sealed.val.data
       /\ current_password # Some(sealed.val.password)
    THEN Some([recovery_key |-> sealed.val.recovery_key,
               data |-> sealed.val.data])
  ELSE None

durga_save_encrypted_file ==
  /\ app = "durga"
  /\ Idle
  /\ UNCHANGED gvars
  /\ rng + 2 <= MaxDraws
  /\ IF current_password = None
       THEN PasswordRequired("Please set a password first.")
     ELSE \E path \in BOOLEAN :
       IF ~path THEN UNCHANGED vars
       ELSE \E salt \in {Draw(0)}, iv \in {Draw(1)}, created_at \in Times :
            \E encrypted_data \in {durga_encrypt_data(Utf8Encode(text),
                                      current_password.val, salt, iv)} :
            \E written \in {WriteContainer(recovery_key, created_at,
                                           encrypted_data)},
               crash \in BOOLEAN :
              /\ rng' = rng + 2
              /\ IF ~written.ok
                   THEN /\ msg' = Box("critical", "Encryption Error", None)
                        /\ last' = [op |-> "save_encrypted_file",
                                    written |-> FALSE, before |-> sealed]
                        /\ UNCHANGED <<encFile, sealed>>
                 ELSE IF crash
                   THEN /\ encFile' = Some(TornFile)
                        /\ last' = Crash("save_encrypted_file", written.val)
                        /\ UNCHANGED <<msg, sealed>>
                 ELSE /\ encFile' = Some(written.val)
                      /\ sealed' = Some([data |-> text,
                                         password |-> current_password.val,
                                         salt |-> salt, iv |-> iv,
                                         recovery_key |-> recovery_key,
                                         container |-> written.val,
                                         drawn |-> rng,
                                         opened |-> FALSE,
                                         rotated_from |-> RotatedFrom])
                      /\ msg' = Box("information",
                                    "File encrypted and saved successfully.",
                                    None)
                      /\ last' = [op |-> "save_encrypted_file",
                                  written |-> TRUE, before |-> sealed]
              /\ UNCHANGED <<app, text, current_password, recovery_key>>

\* A comparison that lets every recovery key through.
RecoveryKeyAlwaysAccepted(ok, recovery, stored_recovery_key) == TRUE

\* Line 932: whether the recovery key typed is the one the header stores.
RecoveryKeyAccepted(ok, recovery, stored_recovery_key) ==
  ok /\ recovery # <<>> /\ Some(recovery) = stored_recovery_key

\* What the user may type at the recovery prompt: nothing, the stored key or
\* another key.
RecoveryEntries(stored_recovery_key) ==
  {<<>>} \cup (IF stored_recovery_key = None THEN {}
               ELSE {stored_recovery_key.val, OtherKey(stored_recovery_key.val)})

\* What a run of open_encrypted_file did: the file picked, what the user
\* typed at the three prompts (None: not asked, cancelled or left empty) and
\* how the run ended.
Attempt(t, password, outcome, recovery, new_password) ==
  [op |-> "open_encrypted_file", tamper |-> t, password |-> password,
   outcome |-> outcome, recovery |-> recovery, new_password |-> new_password]

\* The recovery key issued for the container that the one on disk replaced.
IssuedBefore ==
  IF sealed.val.rotated_from = None
       \/ sealed.val.rotated_from.val.recovery_key = None
    THEN {}
  ELSE {sealed.val.rotated_from.val.recovery_key.val}

\* A handler of a failed first attempt that gives up on the document: it
\* reports the failure, clears the editor and forgets the password.
durga_recover_clearing(t, header, password) ==
  /\ msg' = Box("critical", "Invalid recovery key.", None)
  /\ last' = Attempt(t, Some(password), "invalid recovery key", None, None)
  /\ text' = <<>>
  /\ current_password' = None

\* Lines 923-948: the handler of a failed first attempt.
durga_recover(t, header, password) ==
  \E choice \in {"Yes", "No"} :
    IF choice = "No"
      THEN /\ last' = Attempt(t, Some(password), "declined", None, None)
           /\ UNCHANGED <<msg, text, current_password>>
    ELSE \E ok \in BOOLEAN,
            recovery \in RecoveryEntries(header.stored_recovery_key)
                     \cup IssuedBefore :
      IF ~RecoveryKeyAccepted(ok, recovery, header.stored_recovery_key)
        THEN /\ msg' = Box("critical", "Invalid recovery key.", None)
             /\ last' = Attempt(t, Some(password), "invalid recovery key",
                                IF ok THEN Some(recovery) ELSE None, None)
             /\ UNCHANGED <<text, current_password>>
      ELSE \E ok2 \in BOOLEAN, new_password \in Passwords :
        IF ~ok2 \/ new_password = <<>>
          THEN /\ last' = Attempt(t, Some(password), "no new password",
                                  Some(recovery), None)
               /\ UNCHANGED <<msg, text, current_password>>
        ELSE \E again \in {durga_decrypt_text(header.encrypted_data, password)} :
          IF again.ok
            THEN /\ text' = again.val
                 /\ current_password' = Some(new_password)
                 /\ msg' = Box("information",
                               "Recovery successful. New password set.", None)
                 /\ last' = Attempt(t, Some(password), "recovered",
                                    Some(recovery), Some(new_password))
          ELSE /\ msg' = Box("critical", "Decryption Error", None)
               /\ last' = Attempt(t, Some(password), "error in recovery",
                                  Some(recovery), Some(new_password))
               /\ UNCHANGED <<text, current_password>>

durga_open_encrypted_file ==
  /\ app = "durga"
  /\ Idle
  /\ UNCHANGED gvars
  /\ encFile # None
  /\ \E path \in BOOLEAN :
       IF ~path THEN UNCHANGED vars
       ELSE \E t \in FileChoices(encFile.val,
                       HeaderSizeLen + FromBytes(Slice(encFile.val, 0, HeaderSizeLen))
                         + (2 * BlockSize)) :
            \E header \in {ReadContainer(TamperFile(encFile.val, t))} :
              IF ~header.ok
                THEN /\ msg' = Box("critical", "Decryption Error", None)
                     /\ last' = Attempt(t, None, "error", None, None)
                     /\ UNCHANGED <<app, rng, encFile, text,
                                    current_password, recovery_key, sealed>>
              ELSE \E ok \in BOOLEAN, password \in Passwords :
                IF ~ok \/ password = <<>> THEN UNCHANGED vars
                ELSE \E decrypted \in
                          {durga_decrypt_text(header.val.encrypted_data, password)} :
                  /\ IF decrypted.ok
                       THEN /\ text' = decrypted.val
                            /\ current_password' = Some(password)
                            /\ recovery_key' = header.val.stored_recovery_key
                            /\ msg' = Box("information",
                                          "File decrypted successfully.", None)
                            /\ last' = Attempt(t, Some(password), "loaded",
                                               None, None)
                            /\ sealed' = IF t = 0
                                           THEN [sealed EXCEPT !.val.opened = TRUE]
                                         ELSE sealed
                     ELSE /\ durga_recover(t, header.val, password)
                          /\ UNCHANGED <<recovery_key, sealed>>
                  /\ UNCHANGED <<app, rng, encFile>>

\* The handler has returned and its message box is closed: the program is
\* back in its event loop.
Return ==
  /\ ~Idle
  /\ last.op \notin {"abort", "crash"}
  /\ UNCHANGED gvars
  /\ last' = [op |-> "none"]
  /\ msg' = NoMsg
  /\ UNCHANGED <<app, rng, encFile, text, current_password, recovery_key,
                 sealed>>

\* GrammarCheckTextEdit.__init__ and GrammarCheckerThread.__init__: checking
\* is on, nothing is requested, nothing is highlighted, the checker thread
\* is started and waits for a request.
GrammarInit ==
  /\ pc = [ui |-> "exec", grammar_checker |-> "wait"]
  /\ grammar_check_enabled = TRUE
  /\ grammar_timer = FALSE
  /\ check_requested = FALSE
  /\ text_to_check = <<>>
  /\ checking = <<>>
  /\ results_ready = <<>>
  /\ grammar_issues = <<>>

Init ==
  /\ app \in {"passward", "AI", "durga"}
  /\ rng = 0
  /\ encFile = None
  /\ msg = NoMsg
  /\ text = <<>>
  /\ current_password = None
  /\ recovery_key = None
  /\ sealed = None
  /\ last = [op |-> "none"]
  /\ GrammarInit

Next ==
  \/ encrypt_file
  \/ decrypt_file
  \/ EditText
  \/ AI_set_password
  \/ AI_save_encrypted_file
  \/ AI_open_encrypted_file
  \/ durga_set_password
  \/ durga_save_encrypted_file
  \/ durga_open_encrypted_file
  \/ Return

Spec == Init /\ [][Next]_vars

\* ====================================== the threads of durga.py
\* durga.py runs its window on the UI thread (QApplication.exec) and starts
\* one GrammarCheckerThread.  ThreadSpec follows where the two threads are:
\* every slot runs on the UI thread, one slot at a time; a results_ready
\* signal emitted by the checker thread is queued and delivered when the UI
\* thread next runs an event loop, its own or the one of a modal message
\* box.  What save and open do to the document is what Spec describes; here
\* only the UI thread's position while they run is followed.

\* str.strip() leaves nothing: every character is white space.
IsBlank(t) == \A i \in 1..Len(t) : t[i] \in {9, 10, 11, 12, 13, 32}

\* What the LanguageTool server answers for a text: no match, or a match.
Matches == {<<>>, <<[offset |-> 0, length |-> 1]>>}

\* The positions at which the UI thread runs an event loop.
EventLoops == {"exec", "toggle_grammar_check", "check_grammar"}

\* The positions at which a thread derives a key and encrypts or decrypts.
CryptoCalls == {"encrypt_data", "decrypt_data"}

\* GrammarCheckerThread.set_text
set_text(t) ==
  /\ text_to_check' = t
  /\ check_requested' = TRUE

\* GrammarCheckTextEdit.delayed_grammar_check
delayed_grammar_check ==
  IF grammar_check_enabled
    THEN set_text(text)
  ELSE UNCHANGED <<text_to_check, check_requested>>

\* GrammarCheckTextEdit.handle_text_changed
handle_text_changed ==
  grammar_timer' = (grammar_check_enabled \/ grammar_timer)

\* The user edits the text: textChanged runs handle_text_changed.
textChanged ==
  /\ pc.ui = "exec"
  /\ \E t \in Texts \ {text} : text' = t
  /\ handle_text_changed
  /\ UNCHANGED <<pc, grammar_check_enabled, check_requested, text_to_check,
                 checking, results_ready, grammar_issues>>
  /\ UNCHANGED docvars

\* The single-shot grammar_timer fires: delayed_grammar_check runs.
grammar_timer_timeout ==
  /\ pc.ui \in EventLoops
  /\ grammar_timer
  /\ grammar_timer' = FALSE
  /\ delayed_grammar_check
  /\ UNCHANGED <<pc, grammar_check_enabled, checking, results_ready,
                 grammar_issues, text>>
  /\ UNCHANGED docvars

\* GrammarCheckTextEdit.handle_grammar_results: what is highlighted after
\* the slot ran with the given issues.
handle_grammar_results(issues) == issues

\* The UI thread delivers the oldest queued results_ready signal.
results_ready_delivered ==
  /\ pc.ui \in EventLoops
  /\ results_ready # <<>>
  /\ grammar_issues' = handle_grammar_results(Head(results_ready))
  /\ results_ready' = Tail(results_ready)
  /\ UNCHANGED <<pc, grammar_check_enabled, grammar_timer, check_requested,
                 text_to_check, checking, text>>
  /\ UNCHANGED docvars

\* toggle_grammar_check up to its message box: the flag is flipped and the
\* box is shown; the highlights are not touched before the box is closed.
toggle_grammar_check ==
  /\ pc.ui = "exec"
  /\ grammar_check_enabled' = ~grammar_check_enabled
  /\ pc' = [pc EXCEPT !.ui = "toggle_grammar_check"]
  /\ UNCHANGED <<grammar_timer, check_requested, text_to_check, checking,
                 results_ready, grammar_issues, text>>
  /\ UNCHANGED docvars

\* toggle_grammar_check after its message box is closed.
toggle_grammar_check_update ==
  /\ pc.ui = "toggle_grammar_check"
  /\ IF grammar_check_enabled
       THEN /\ delayed_grammar_check
            /\ UNCHANGED grammar_issues
     ELSE /\ grammar_issues' = <<>>
          /\ UNCHANGED <<text_to_check, check_requested>>
  /\ pc' = [pc EXCEPT !.ui = "exec"]
  /\ UNCHANGED <<grammar_check_enabled, grammar_timer, checking,
                 results_ready, text>>
  /\ UNCHANGED docvars

\* check_grammar up to its message box.
check_grammar ==
  /\ pc.ui = "exec"
  /\ delayed_grammar_check
  /\ pc' = [pc EXCEPT !.ui = "check_grammar"]
  /\ UNCHANGED <<grammar_check_enabled, grammar_timer, checking,
                 results_ready, grammar_issues, text>>
  /\ UNCHANGED docvars

\* The "Save Encrypted" and "Open Encrypted" menu actions call their slots
\* on the UI thread: save_encrypted_file (a password is set, a path chosen)
\* reaches encrypt_data, open_encrypted_file (a file chosen, a password
\* typed) reaches decrypt_data, and the thread that runs the slot derives
\* the key and runs the cipher.
crypto_slot ==
  /\ pc.ui = "exec"
  /\ \E call \in CryptoCalls :
       /\ call = "encrypt_data" => current_password # None
       /\ pc' = [pc EXCEPT !.ui = call]
  /\ UNCHANGED <<grammar_check_enabled, grammar_timer, check_requested,
                 text_to_check, checking, results_ready, grammar_issues,
                 text>>
  /\ UNCHANGED docvars

\* The slot returns to the event loop: from check_grammar's message box,
\* from save_encrypted_file, from an open_encrypted_file that failed, or
\* from one that loaded a text (setText emits textChanged).
slot_return ==
  /\ pc.ui \in CryptoCalls \cup {"check_grammar"}
  /\ pc' = [pc EXCEPT !.ui = "exec"]
  /\ \/ UNCHANGED <<text, grammar_timer>>
     \/ /\ pc.ui = "decrypt_data"
        /\ \E t \in Texts : text' = t
        /\ handle_text_changed
  /\ UNCHANGED <<grammar_check_enabled, check_requested, text_to_check,
                 checking, results_ready, grammar_issues>>
  /\ UNCHANGED docvars

\* GrammarCheckerThread.run: check_requested.wait() returns.
run_wait ==
  /\ pc.grammar_checker = "wait"
  /\ check_requested
  /\ pc' = [pc EXCEPT !.grammar_checker = "clear"]
  /\ UNCHANGED <<grammar_check_enabled, grammar_timer, check_requested,
                 text_to_check, checking, results_ready, grammar_issues,
                 text>>
  /\ UNCHANGED docvars

\* GrammarCheckerThread.run: check_requested.clear()
run_clear ==
  /\ pc.grammar_checker = "clear"
  /\ check_requested' = FALSE
  /\ pc' = [pc EXCEPT !.grammar_checker = "read"]
  /\ UNCHANGED <<grammar_check_enabled, grammar_timer, text_to_check,
                 checking, results_ready, grammar_issues, text>>
  /\ UNCHANGED docvars

\* GrammarCheckerThread.run: text = self.text_to_check, and back to the
\* wait when there is nothing to check.
run_read ==
  /\ pc.grammar_checker = "read"
  /\ checking' = text_to_check
  /\ pc' = [pc EXCEPT !.grammar_checker =
              IF IsBlank(text_to_check) THEN "wait" ELSE "post"]
  /\ UNCHANGED <<grammar_check_enabled, grammar_timer, check_requested,
                 text_to_check, results_ready, grammar_issues, text>>
  /\ UNCHANGED docvars

\* GrammarCheckerThread.run: the request to the server ends, with an
\* answer that is emitted as results_ready or with a failure that is only
\* printed; the thread sleeps and waits again.
run_post ==
  /\ pc.grammar_checker = "post"
  /\ Len(results_ready) < MaxQueue
  /\ \E response \in {None} \cup {Some(m) : m \in Matches} :
       results_ready' = IF response = None THEN results_ready
                        ELSE Append(results_ready, response.val)
  /\ pc' = [pc EXCEPT !.grammar_checker = "wait"]
  /\ UNCHANGED <<grammar_check_enabled, grammar_timer, check_requested,
                 text_to_check, checking, grammar_issues, text>>
  /\ UNCHANGED docvars

\* durga.py's window after set_password.
ThreadInit ==
  /\ app = "durga"
  /\ rng = 1
  /\ encFile = None
  /\ msg = NoMsg
  /\ text = <<>>
  /\ current_password = Some(<<97>>)
  /\ recovery_key = Some(token_hex(Random16(0)))
  /\ sealed = None
  /\ last = [op |-> "none"]
  /\ GrammarInit

ThreadNext ==
  \/ textChanged
  \/ grammar_timer_timeout
  \/ results_ready_delivered
  \/ toggle_grammar_check
  \/ toggle_grammar_check_update
  \/ check_grammar
  \/ crypto_slot
  \/ slot_return
  \/ run_wait
  \/ run_clear
  \/ run_read
  \/ run_post

ThreadSpec == ThreadInit /\ [][ThreadNext]_vars

\* ============================================================ claims
\* decrypt_file ran last, through the given method.
Decrypted(method) ==
  app = "passward" /\ last.op = "decrypt_file" /\ last.method = method

\* open_encrypted_file of the given editor ran last.
Opened(a) == app = a /\ last.op = "open_encrypted_file"

\* The run returned v.
Returned(r, v) == r.ok /\ r.val = v

\* s contains sub as a run of consecutive elements.
Contains(s, sub) ==
  \E i \in 0..(Len(s) - Len(sub)) : SubSeq(s, i + 1, i + Len(sub)) = sub

\* C1: password round trip. Decrypting the container encrypt_file wrote, as
\* written, with the password it was encrypted with returns exactly the
\* plaintext; opening the file an editor saved, as saved, with the password
\* it was saved with loads exactly the saved text and keeps that password.
C1_PasswordRoundTrip ==
  /\ (Decrypted("Password") /\ last.tamper = 0
        /\ last.entered = sealed.val.password)
       => Returned(last.decrypted, sealed.val.data)
  /\ (Opened("AI") /\ last.tamper = 0 /\ last.password = sealed.val.password)
       => (last.loaded /\ text = sealed.val.data
             /\ current_password = Some(last.password))
  /\ (Opened("durga") /\ last.tamper = 0
        /\ last.password = Some(sealed.val.password))
       => (last.outcome = "loaded" /\ text = sealed.val.data
             /\ current_password = last.password)

\* A plaintext of one block and a byte came back from the password path.
C1_Witness ==
  /\ Decrypted("Password") /\ last.tamper = 0
  /\ last.entered = sealed.val.password
  /\ Len(sealed.val.data) = BlockSize + 1
  /\ Returned(last.decrypted, sealed.val.data)

\* C2: recovery round trip. Decrypting the container encrypt_file wrote, as
\* written, through the "Recovery Key" path with the recovery key encrypt_file
\* displayed returns exactly the plaintext.
C2_RecoveryRoundTrip ==
  (Decrypted("Recovery Key") /\ last.tamper = 0
     /\ Some(last.entered) = sealed.val.recovery_key)
    => Returned(last.decrypted, sealed.val.data)

\* The file on disk is the container the last seal or save wrote.
Intact == sealed # None /\ encFile = Some(sealed.val.container)

\* The fields of the container encrypt_file wrote, read back from the file.
Content == FileLoads(encFile.val).val

\* The bytes a written container holds.
Persisted == {encFile.val}

\* C3: the recovery key is never written to the container. No file a seal or
\* save operation wrote holds the recovery key that went with it.
C3_SecretNotPersisted ==
  (Intact /\ sealed.val.recovery_key # None)
    => \A field \in Persisted :
         ~Contains(field, Utf8Encode(sealed.val.recovery_key.val))

\* C4: wrong password rejected. Decrypting the container as written through
\* the password path with another password than the one it was encrypted
\* with ends in "Wrong password or corrupted file." and yields no plaintext.
C4_WrongPasswordRejected ==
  (Decrypted("Password") /\ last.tamper = 0
     /\ last.entered # sealed.val.password)
    => /\ ~last.decrypted.ok
       /\ last.saved = None
       /\ msg = Box("critical", "Wrong password or corrupted file.", None)

\* C5: in the editors, opening the saved file with another password than the
\* one it was saved with never loads text and never sets current_password,
\* whatever the document, the empty one included.
C5_EditorWrongPassword ==
  /\ (Opened("AI") /\ last.tamper = 0 /\ last.password # sealed.val.password)
       => /\ ~last.loaded
          /\ msg = Box("critical", "Failed to decrypt. Invalid password?", None)
  /\ (Opened("durga") /\ last.tamper = 0
        /\ last.password # Some(sealed.val.password))
       => last.outcome # "loaded"

\* C6: wrong recovery key rejected. Whatever file is picked, a recovery key
\* other than the one generated for it ends the recovery path in its
\* invalid-key error: decrypt_file decrypts and saves nothing, the editor
\* keeps its text and its current password.
C6_WrongRecoveryRejected ==
  [][/\ (app' = "passward" /\ last'.op = "decrypt_file"
           /\ last'.method = "Recovery Key"
           /\ Some(last'.entered) # sealed'.val.recovery_key)
          => /\ ~last'.decrypted.ok
             /\ last'.saved = None
             /\ msg' = Box("critical",
                           "Invalid recovery key or file corrupted.", None)
     /\ (app' = "durga" /\ last'.op = "open_encrypted_file"
           /\ last'.recovery # None
           /\ last'.recovery # sealed'.val.recovery_key)
          => /\ last'.outcome = "invalid recovery key"
             /\ msg' = Box("critical", "Invalid recovery key.", None)
             /\ text' = text
             /\ current_password' = current_password]_vars

\* The editor turned down a recovery key that differs from the stored one in
\* its first character.
C6_Witness ==
  /\ Opened("durga")
  /\ last.recovery = Some(OtherKey(sealed.val.recovery_key.val))
  /\ last.outcome = "invalid recovery key"
  /\ msg = Box("critical", "Invalid recovery key.", None)

\* C7: in the editor, after the password attempt failed, the recovery key the
\* file stores and a non-empty new password load the saved text and make
\* the new password the current one.
C7_RecoveryLoadsDocument ==
  (Opened("durga") /\ last.tamper = 0
     /\ last.recovery # None /\ last.recovery = sealed.val.recovery_key
     /\ last.new_password # None)
    => /\ last.outcome = "recovered"
       /\ text = sealed.val.data
       /\ current_password = last.new_password

\* C8: tamper detection. With the right password, a file that differs from
\* the one written in one ciphertext byte fails to open, and no open returns
\* another plaintext than the one sealed.
C8_TamperDetected ==
  /\ (Decrypted("Password") /\ last.entered = sealed.val.password)
       => /\ last.tamper > 0 => ~last.decrypted.ok
          /\ last.decrypted.ok => last.decrypted.val = sealed.val.data
  /\ (Opened("AI") /\ last.password = sealed.val.password)
       => /\ last.tamper > 0 => ~last.loaded
          /\ last.loaded => text = sealed.val.data

\* PKCS7(128) padding of data by one padder.
Pkcs7(data) ==
  PadderUpdate(<<>>, data).out \o PadderFinalize(PadderUpdate(<<>>, data).buffer)

\* The key derived from the displayed recovery key and the stored recovery salt.
StoredRecoveryKeyBytes ==
  passward_generate_key(sealed.val.recovery_key.val,
                        b64decode(Content.recovery.salt).val)

\* C9: wrapped-key invariant. In every container encrypt_file wrote,
\* recovery.encrypted_key is the AES-CBC encryption, under the key derived
\* from the recovery key and the recovery salt, of a valid PKCS7 padding of
\* the 32-byte content key that encrypted encrypted_data; decrypting and
\* unpadding it gives those 32 bytes.
C9_WrappedKeyInvariant ==
  (app = "passward" /\ Intact)
    => /\ Len(sealed.val.key) = KeyLen
       /\ b64decode(Content.encrypted_data).val
            = passward_encrypt_data(sealed.val.data, sealed.val.key,
                                    sealed.val.iv).encrypted
       /\ b64decode(Content.recovery.encrypted_key).val
            = CBCEncrypt(StoredRecoveryKeyBytes, sealed.val.wrap_iv,
                         Pkcs7(sealed.val.key)).val
       /\ Returned(passward_decrypt_data(
                     b64decode(Content.recovery.encrypted_key).val,
                     StoredRecoveryKeyBytes, sealed.val.wrap_iv),
                   sealed.val.key)

\* A container was written whose wrapped block is three blocks long: the key
\* and a whole block of padding.
C9_Witness ==
  /\ app = "passward" /\ Intact
  /\ Len(sealed.val.key) = KeyLen
  /\ sealed.val.padded_key = sealed.val.key \o [i \in 1..BlockSize |-> BlockSize]
  /\ Len(b64decode(Content.recovery.encrypted_key).val) = KeyLen + BlockSize

\* C10: the wrap uses a salt and an IV of its own. The recovery salt is not
\* the content salt, the IV the content key is encrypted with is not the IV
\* of the content ciphertext, and the container stores it as a field of its
\* own.
C10_FreshWrapIV ==
  (app = "passward" /\ Intact)
    => /\ sealed.val.recovery_salt # sealed.val.salt
       /\ sealed.val.wrap_iv # sealed.val.iv
       /\ "iv" \in DOMAIN Content.recovery

\* A seal or save wrote a container in the handler run that just ended.
Sealed ==
  \/ last.op = "encrypt_file"
  \/ last.op = "save_encrypted_file" /\ last.written

\* The encrypt calls of the run that s describes, in order: the key and the
\* IV each one ran with.
Encryptions(s) ==
  IF app = "passward"
    THEN <<[key |-> s.key, iv |-> s.iv],
           [key |-> s.wrap_key, iv |-> s.wrap_iv]>>
  ELSE IF app = "AI"
    THEN <<[key |-> AI_generate_key(s.password, s.salt), iv |-> s.iv]>>
  ELSE <<[key |-> durga_generate_key(s.password, s.salt), iv |-> s.iv]>>

\* The values the random source returned during the seal that s describes:
\* four in encrypt_file, two in the editors' save_encrypted_file.
DrawsOf(s) ==
  {Random16(s.drawn + k) : k \in 0..((IF app = "passward" THEN 4 ELSE 2) - 1)}

DrawnIn(s, v) == v \in DrawsOf(s)

\* No two elements of the sequence are equal.
AllDifferent(seq) ==
  \A i \in DOMAIN seq : \A j \in DOMAIN seq : i # j => seq[i] # seq[j]

\* The encrypt calls of the seal before the one that just ended.
EncryptionsBefore ==
  IF last.before = None THEN <<>> ELSE Encryptions(last.before.val)

\* C11: a fresh IV for every encrypt call. Among the encrypt calls of a seal
\* and of the seal before it, content encryption and key wrapping alike, no
\* two ran with the same key and IV; and each call of a seal ran with an IV
\* of its own that the random source returned during that seal.
C11_FreshIVPerEncryption ==
  Sealed =>
    /\ AllDifferent(EncryptionsBefore \o Encryptions(sealed.val))
    /\ AllDifferent([i \in DOMAIN Encryptions(sealed.val)
                       |-> Encryptions(sealed.val)[i].iv])
    /\ \A i \in DOMAIN Encryptions(sealed.val) :
         DrawnIn(sealed.val, Encryptions(sealed.val)[i].iv)

\* The content salt, content IV and content ciphertext that a reader of the
\* given file finds: the three base64 fields of encrypt_file's JSON object,
\* the three slices decrypt_data takes of the editors' encrypted data.
ContentTriple(file) ==
  LET encrypted == IF app = "AI" THEN file
                   ELSE IF app = "durga"
                     THEN ReadContainer(file).val.encrypted_data
                   ELSE <<>>
  IN IF app = "passward"
       THEN [salt |-> b64decode(FileLoads(file).val.salt).val,
             iv |-> b64decode(FileLoads(file).val.iv).val,
             ciphertext |-> b64decode(FileLoads(file).val.encrypted_data).val]
     ELSE [salt |-> Slice(encrypted, 0, 16), iv |-> Slice(encrypted, 16, 32),
           ciphertext |-> Slice(encrypted, 32, Len(encrypted))]

\* The recovery salt and wrapped content key that the given file holds
\* besides its content triple. encrypt_file's JSON object has them under
\* 'recovery'. The file AI.py writes ends with the content ciphertext; what
\* durga.py writes before the content triple is the recovery key itself and a
\* time stamp, neither a salt nor a wrapped key.
RecoveryBlock(file) ==
  IF app = "passward"
    THEN Some([salt |-> b64decode(FileLoads(file).val.recovery.salt).val,
               wrapped_key |->
                 b64decode(FileLoads(file).val.recovery.encrypted_key).val])
  ELSE None

\* C12: every container written is valid. The file a seal or save wrote
\* carries the content salt, content IV and content ciphertext of that seal,
\* and one recovery salt with one wrapped content key.
C12_ContainerValid ==
  Intact =>
    /\ ContentTriple(encFile.val).salt = sealed.val.salt
    /\ ContentTriple(encFile.val).iv = sealed.val.iv
    /\ Len(ContentTriple(encFile.val).ciphertext)
         >= Len(IF app = "passward" THEN sealed.val.data
                ELSE Utf8Encode(sealed.val.data))
    /\ RecoveryBlock(encFile.val) # None
    /\ Len(RecoveryBlock(encFile.val).val.salt) = BlockSize
    /\ Len(RecoveryBlock(encFile.val).val.wrapped_key) >= KeyLen

\* A step of decrypt_file or of an editor's open_encrypted_file.
OpenStep ==
  /\ Idle
  /\ last'.op \in {"decrypt_file", "open_encrypted_file", "abort"}

\* The step wrote decrypted bytes to the path of the container itself.
SavedOverContainer ==
  /\ last'.op = "decrypt_file"
  /\ last'.saved # None
  /\ last'.save_path = ContainerPath

\* C13 as stated: no open operation changes the container file, whatever the
\* user chooses in its dialogs.
C13_OpenNeverMutates == [][OpenStep => encFile' = encFile]_vars

\* C13, amended: an open operation writes to no file but the one picked in
\* "Save Decrypted File". Unless that is the path of the container itself,
\* the container file is the same after the operation as before; if it is,
\* the file then holds the decrypted bytes.
C13_OpenWritesOnlySavePath ==
  [][OpenStep => IF SavedOverContainer
                   THEN encFile' = last'.saved
                 ELSE encFile' = encFile]_vars

\* decrypt_file saved the plaintext to another path and left the container
\* as encrypt_file wrote it.
C13_Witness ==
  /\ Decrypted("Password")
  /\ last.save_path = OtherPath
  /\ last.saved = Some(sealed.val.data)
  /\ Intact

\* A step of an open operation that ends in failure: decrypt_file decrypted
\* nothing, the editor loaded nothing.
FailedAttempt ==
  /\ Idle
  /\ \/ last'.op = "decrypt_file" /\ ~last'.decrypted.ok
     \/ app = "AI" /\ last'.op = "open_encrypted_file" /\ ~last'.loaded
     \/ /\ app = "durga" /\ last'.op = "open_encrypted_file"
        /\ last'.outcome \notin {"loaded", "recovered"}

\* C14: failure is local to the attempt. A failed password or recovery
\* attempt changes neither the container nor the text, the current password,
\* the recovery key or the random source: once its message box is closed the
\* program is in the state it was in before the attempt, so a later attempt
\* meets the same container and the same state as if it had not happened.
C14_FailureIsLocal ==
  [][FailedAttempt => UNCHANGED <<app, rng, encFile, text, current_password,
                                  recovery_key, sealed>>]_vars

\* The editor, holding a document and a password, turned down a password and
\* then a recovery key, and still holds both.
C14_Witness ==
  /\ Opened("durga")
  /\ last.outcome = "invalid recovery key"
  /\ text # <<>>
  /\ current_password = Some(sealed.val.password)
  /\ Intact

\* C15: rotation preserves recoverability. When the container on disk is
\* the rotation of an earlier one (opened, given a new password, saved
\* again with the same document), the recovery key issued for the earlier
\* container, entered with a new password after a failed password attempt,
\* loads the original document.
C15_RotationKeepsRecovery ==
  (Opened("durga") /\ last.tamper = 0
     /\ sealed.val.rotated_from # None
     /\ last.recovery # None
     /\ last.recovery = sealed.val.rotated_from.val.recovery_key)
    => /\ last.outcome \in {"recovered", "no new password"}
       /\ last.outcome = "recovered"
            => (text = sealed.val.rotated_from.val.data
                  /\ current_password = last.new_password)

\* C16: a malformed container ends in an error. Opening a file cut short
\* never loads or returns anything and ends in an error message; no open
\* leaves its handler through an exception nobody catches.
C16_MalformedRejected ==
  /\ (Opened("AI") /\ last.tamper < 0)
       => /\ ~last.loaded
          /\ msg = Box("critical", "Failed to decrypt. Invalid password?", None)
  /\ (Opened("durga") /\ last.tamper < 0)
       => last.outcome \notin {"loaded", "recovered"}
  /\ (app = "passward" /\ last.op = "decrypt_file" /\ last.tamper < 0)
       => (~last.decrypted.ok /\ msg.box = "critical")
  /\ last.op # "abort"

\* C17: nothing is cached across calls. Once a seal or an open operation has
\* completed, the window object holds no password and no recovery key.
C17_NothingCached ==
  (sealed # None \/ last.op \in {"decrypt_file", "open_encrypted_file"})
    => (current_password = None /\ recovery_key = None)

\* The recovery secret each program makes of the 16 bytes r the random
\* source returned.
RecoverySecret(r) ==
  IF app = "durga" THEN token_hex(r) ELSE generate_recovery_key(r)

\* C18: one recovery secret per container, generated in its seal. The
\* container a seal wrote is protected by a recovery secret made of bytes
\* the random source returned during that seal, and not by the secret of
\* the container sealed before it.
C18_OwnRecoverySecret ==
  Sealed =>
    /\ sealed.val.recovery_key # None
    /\ \E r \in DrawsOf(sealed.val) :
         sealed.val.recovery_key = Some(RecoverySecret(r))
    /\ last.before # None
         => sealed.val.recovery_key # last.before.val.recovery_key

\* C19: container writes are atomic. When the program is killed during a
\* seal or save, the path holds what it held before or the whole new
\* container.
C19_AtomicWrite ==
  last.op = "crash"
    => (encFile = last.previous \/ encFile = Some(last.intended))

\* The salts and the IV stored in the given container.
StoredRandoms(file) ==
  {ContentTriple(file).salt, ContentTriple(file).iv}
    \cup (IF RecoveryBlock(file) = None THEN {}
          ELSE {RecoveryBlock(file).val.salt})

\* The salts and the IV of the container sealed before the one just written.
StoredBefore ==
  IF last.before = None THEN {} ELSE StoredRandoms(last.before.val.container)

\* C20: fresh salts and IV in every seal. The content salt, the content IV
\* and, where there is one, the recovery salt of the container a seal wrote
\* are different values, each returned by the random source during that
\* seal, and none of them is a salt or IV of the container sealed before,
\* whether or not that container was opened in between.
C20_FreshSaltsAndIV ==
  Sealed =>
    /\ StoredRandoms(encFile.val) \subseteq DrawsOf(sealed.val)
    /\ Cardinality(StoredRandoms(encFile.val))
         = (IF app = "passward" THEN 3 ELSE 2)
    /\ StoredRandoms(encFile.val) \cap StoredBefore = {}

\* The editor saved a document again after opening the container it had
\* saved before, under the same password.
C20_Witness ==
  /\ app = "durga" /\ Sealed
  /\ last.before # None /\ last.before.val.opened
  /\ sealed.val.password = last.before.val.password
  /\ sealed.val.data = last.before.val.data
  /\ StoredRandoms(encFile.val) \cap StoredBefore = {}

\* How open_encrypted_file of durga.py ends after the password attempt has
\* failed and "Incorrect password. Do you want to try using the recovery
\* key?" has been asked.
AfterIncorrectPassword ==
  {"declined", "invalid recovery key", "no new password", "error in recovery"}

\* C21: a corrupted file is reported as a wrong password is. An attempt with
\* the right password on a file that differs from the container written
\* (one ciphertext byte changed, or cut short) ends in the error a wrong
\* password ends in: "Wrong password or corrupted file." in decrypt_file,
\* "Failed to decrypt. Invalid password?" in AI.py, the "Incorrect password"
\* question in durga.py; and no attempt ends without any report.
C21_WrongPasswordLikeCorrupted ==
  /\ (Decrypted("Password") /\ last.tamper # 0
        /\ last.entered = sealed.val.password)
       => /\ ~last.decrypted.ok
          /\ msg = Box("critical", "Wrong password or corrupted file.", None)
  /\ (Opened("AI") /\ last.tamper # 0 /\ last.password = sealed.val.password)
       => /\ ~last.loaded
          /\ msg = Box("critical", "Failed to decrypt. Invalid password?", None)
  /\ (Opened("durga") /\ last.tamper # 0
        /\ last.password \in {None, Some(sealed.val.password)})
       => last.outcome \in AfterIncorrectPassword
  /\ last.op # "abort"

\* C22: seal and open run off the interactive thread: whenever a thread is
\* deriving a key and encrypting or decrypting, that thread is not the UI
\* thread, and the UI thread is in an event loop, able to process events.
C22_CryptoOffUIThread ==
  /\ \A thread \in DOMAIN pc : pc[thread] \in CryptoCalls => thread # "ui"
  /\ (\E thread \in DOMAIN pc : pc[thread] \in CryptoCalls)
       => pc.ui \in EventLoops

\* The key derivation of the program that runs.
generate_key(password, salt) ==
  IF app = "passward" THEN passward_generate_key(password, salt)
  ELSE IF app = "AI" THEN AI_generate_key(password, salt)
  ELSE durga_generate_key(password, salt)

\* The iteration count of the key derivation of each program.
Iterations ==
  [passward |-> PasswardIterations, AI |-> AIIterations,
   durga |-> DurgaIterations]

\* The key an open of the written container derives from the password of
\* the seal and the salt it reads from the file.
KeyAtOpen ==
  generate_key(sealed.val.password, ContentTriple(encFile.val).salt)

\* C23 as stated: one iteration count at every call site of the repository.
\* For the password and the salt of a written container, the derivations of
\* passward.py, AI.py and durga.py run with the same iteration count and
\* return the same 32-byte key.
C23_OneIterationCount ==
  (Sealed /\ Intact) =>
    /\ \A a, b \in DOMAIN Iterations : Iterations[a] = Iterations[b]
    /\ \A k \in {AI_generate_key(sealed.val.password, sealed.val.salt),
                 durga_generate_key(sealed.val.password, sealed.val.salt),
                 passward_generate_key(sealed.val.password, sealed.val.salt)} :
         k = KeyAtOpen /\ Len(k) = KeyLen

\* C23, amended: each program has one fixed iteration count. Once a seal has
\* written its container, the key an open derives from the password and the
\* stored salt is the key the seal encrypted the content with, 32 bytes long, PBKDF2 of (password, salt)
\* with the program's count: 390000 in passward.py, for the password and
\* for the recovery key alike, 100000 in AI.py and in durga.py.
C23_FixedIterationsPerProgram ==
  (Sealed /\ Intact) =>
    \A k \in {KeyAtOpen} :
      /\ Len(k) = KeyLen
      /\ k = PBKDF2HMAC(Utf8Encode(sealed.val.password), sealed.val.salt,
                        Iterations[app], KeyLen)
      /\ Iterations[app] = IF app = "passward" THEN 390000 ELSE 100000
      /\ app = "passward" =>
           /\ k = sealed.val.key
           /\ generate_key(sealed.val.recovery_key.val,
                           RecoveryBlock(encFile.val).val.salt)
                = sealed.val.wrap_key
      /\ app # "passward" =>
           /\ CFBEncrypt(k, sealed.val.iv, Utf8Encode(sealed.val.data)).val
                = ContentTriple(encFile.val).ciphertext
           /\ AI_generate_key(sealed.val.password, sealed.val.salt)
                = durga_generate_key(sealed.val.password, sealed.val.salt)

\* A second seal has just written its container, under a two-character
\* password.
C23_Witness ==
  /\ Sealed
  /\ Intact
  /\ last.before # None
  /\ sealed.val.password = <<100, 100>>

\* C24: encrypt_file displays the recovery key if and only if it wrote a
\* container, and only once the write has completed: a run that is killed
\* during the write displays nothing. The key displayed is the one whose
\* derived key wraps the content key in that container: unwrapping the
\* stored block with it gives the key that decrypts encrypted_data. A run
\* that returns without a message (a dialog was cancelled) has written
\* nothing.
C24_RecoveryKeyAfterWrite ==
  /\ [](app = "passward" =>
          /\ (msg.shown # None) <=> (last.op = "encrypt_file")
          /\ last.op = "encrypt_file" =>
               /\ Intact
               /\ msg.shown = sealed.val.recovery_key
               /\ \A wrapping \in
                      {passward_generate_key(
                         msg.shown.val, b64decode(Content.recovery.salt).val)} :
                    /\ b64decode(Content.recovery.encrypted_key).val
                         = CBCEncrypt(wrapping, sealed.val.wrap_iv,
                                      sealed.val.padded_key).val
                    /\ Returned(passward_decrypt_data(
                                  b64decode(Content.recovery.encrypted_key).val,
                                  wrapping, sealed.val.wrap_iv),
                                sealed.val.key)
               /\ Returned(passward_decrypt_data(
                             b64decode(Content.encrypted_data).val,
                             sealed.val.key, sealed.val.iv),
                           sealed.val.data)
          /\ last.op = "crash" => (msg = NoMsg /\ ~Intact))
  /\ [][(app = "passward" /\ Idle /\ last'.op \notin {"decrypt_file", "abort"})
          => /\ (last'.op = "encrypt_file")
                  <=> (encFile' # encFile /\ sealed' # sealed
                         /\ encFile' = Some(sealed'.val.container))
             /\ Idle' => (encFile' = encFile /\ msg' = NoMsg)]_vars

\* encrypt_file has written its second container and displays the recovery
\* key of that one.
C24_Witness ==
  /\ app = "passward"
  /\ last.op = "encrypt_file"
  /\ last.before # None
  /\ Intact
  /\ msg.shown = sealed.val.recovery_key
  /\ msg.shown # last.before.val.recovery_key

\* C25: no container is ever encrypted under an empty password. In every
\* state current_password is unset or a non-empty string; every container
\* written, by encrypt_file from the password entered and by the editors'
\* save_encrypted_file from current_password, was encrypted under a
\* non-empty password; and a save has written only with a password set.
C25_NoEmptyPassword ==
  /\ current_password # None => current_password.val # <<>>
  /\ sealed # None => sealed.val.password # <<>>
  /\ (last.op = "save_encrypted_file" /\ last.written)
       => /\ current_password # None
          /\ sealed.val.password = current_password.val

\* An editor has saved a container under a password that an open had set.
C25_Witness ==
  /\ app \in {"AI", "durga"}
  /\ last.op = "save_encrypted_file" /\ last.written
  /\ Intact
  /\ last.before # None
  /\ current_password # Some(last.before.val.password)

\* C26: save_encrypted_file with no password set shows the warning and
\* returns. The run writes no file and changes nothing of the application:
\* the file on disk, the text, current_password, recovery_key and the
\* random source are as they were, and after the warning is dismissed the
\* program is in the state it was in before.
C26_SaveWithoutPassword ==
  [][/\ (app \in {"AI", "durga"} /\ Idle /\ current_password = None
          /\ last'.op = "save_encrypted_file")
         => /\ msg' = Box("warning",
                          IF app = "AI" THEN "Set a password first."
                          ELSE "Please set a password first.", None)
            /\ ~last'.written
            /\ UNCHANGED <<app, rng, encFile, text, current_password,
                           recovery_key, sealed>>
     /\ (last.op = "save_encrypted_file" /\ current_password = None /\ Idle')
         => /\ msg' = NoMsg
            /\ UNCHANGED <<app, rng, encFile, text, current_password,
                           recovery_key, sealed>>]_vars

\* A text was typed and save_encrypted_file ran with no password set.
C26_Witness ==
  /\ last.op = "save_encrypted_file"
  /\ current_password = None
  /\ msg.box = "warning"
  /\ text # <<>>

\* C27: the length-prefixed layout of durga.py round-trips. From every file
\* save_encrypted_file wrote, open_encrypted_file reads back the
\* recovery_key that was written and the encrypted_data that was written:
\* the first four bytes are the big-endian length of the JSON header, the
\* header follows, the rest of the file is salt, iv and ciphertext of the
\* save; and an open that loads the file takes over that recovery_key.
C27_ContainerRoundTrip ==
  /\ (app = "durga" /\ Intact) =>
       \A r \in {ReadContainer(encFile.val)} :
         /\ r.ok
         /\ r.val.stored_recovery_key = sealed.val.recovery_key
         /\ FromBytes(Slice(encFile.val, 0, HeaderSizeLen))
              = Len(encFile.val) - HeaderSizeLen - Len(r.val.encrypted_data)
         /\ Slice(r.val.encrypted_data, 0, 2 * BlockSize)
              = sealed.val.salt \o sealed.val.iv
         /\ Sealed =>
              r.val.encrypted_data
                = durga_encrypt_data(Utf8Encode(sealed.val.data),
                                     sealed.val.password, sealed.val.salt,
                                     sealed.val.iv)
  /\ (Opened("durga") /\ Intact /\ last.tamper = 0 /\ last.outcome = "loaded")
       => recovery_key = sealed.val.recovery_key

\* save_encrypted_file has just written a non-empty text over an earlier
\* container.
C27_Witness ==
  /\ app = "durga"
  /\ Sealed
  /\ Intact
  /\ last.before # None
  /\ sealed.val.data # <<>>
  /\ ReadContainer(encFile.val).val.stored_recovery_key = recovery_key

\* C28: in durga.py, where every file opened is one save_encrypted_file
\* wrote, recovery_key is a non-null string whenever current_password is
\* set, so every container written carries a recovery_key that is not null;
\* a password open that loads the file takes over the recovery_key the file
\* holds, and a save that follows it, with no set_password between, writes
\* that same recovery_key.
C28_RecoveryKeyWithPassword ==
  /\ [](app = "durga" =>
          /\ current_password # None
               => (recovery_key # None /\ recovery_key.val # <<>>)
          /\ Intact =>
               /\ sealed.val.recovery_key # None
               /\ ReadContainer(encFile.val).val.stored_recovery_key
                    = sealed.val.recovery_key
          /\ (Opened("durga") /\ Intact /\ last.outcome = "loaded")
               => recovery_key = sealed.val.recovery_key)
  /\ [][(app = "durga" /\ Idle /\ sealed # None /\ sealed.val.opened
            /\ recovery_key = sealed.val.recovery_key
            /\ last'.op = "save_encrypted_file" /\ last'.written)
          => /\ sealed'.val.recovery_key = sealed.val.recovery_key
             /\ encFile' = Some(sealed'.val.container)]_vars

\* A container was opened with its password after set_password had issued
\* another recovery key, and saved again: the new container carries the
\* recovery key of the one opened.
C28_Witness ==
  /\ app = "durga"
  /\ Sealed
  /\ Intact
  /\ last.before # None
  /\ last.before.val.opened
  /\ sealed.val.recovery_key = last.before.val.recovery_key
  /\ last.before.val.drawn + 2 < sealed.val.drawn

\* C29: set_password updates current_password and recovery_key together or
\* not at all. A set_password that is cancelled or given an empty string
\* leaves both as they were (the program stays in its event loop with both
\* unchanged); one that is accepted sets the password typed and a recovery
\* key newly taken from the random source, different from the one before,
\* shows that key, and touches neither the file nor the text.
C29_SetPasswordFrame ==
  [][(app \in {"AI", "durga"} /\ Idle)
       => /\ Idle' => UNCHANGED <<current_password, recovery_key>>
          /\ last'.op = "set_password" =>
               /\ current_password' # None
               /\ current_password'.val # <<>>
               /\ recovery_key' # None
               /\ recovery_key' # recovery_key
               /\ recovery_key'.val =
                    (IF app = "AI"
                       THEN Utf8Decode(urlsafe_b64encode(Draw(0))).val
                     ELSE token_hex(Draw(0)))
               /\ rng' = rng + 1
               /\ msg'.shown = recovery_key'
               /\ UNCHANGED <<encFile, text, sealed>>]_vars

\* set_password was accepted after a save: the password and the recovery
\* key both differ from the ones of the container on disk.
C29_Witness ==
  /\ last.op = "set_password"
  /\ Intact
  /\ current_password # Some(sealed.val.password)
  /\ recovery_key # sealed.val.recovery_key

\* Automatic checking is off and toggle_grammar_check has cleared the
\* highlights.
ClearedAndDisabled ==
  /\ ~grammar_check_enabled
  /\ pc.ui # "toggle_grammar_check"
  /\ grammar_issues = <<>>

\* C30: once automatic grammar checking is toggled off and the highlights
\* are cleared, no step of the UI thread or of the grammar checker thread
\* applies a highlight while checking stays off, whatever was requested, in
\* flight or queued when the toggle happened.
C30_NoHighlightsWhileDisabled ==
  [][(ClearedAndDisabled /\ ~grammar_check_enabled')
       => grammar_issues' = <<>>]_vars

====
